---- MODULE Spec2Model ----
(***************************************************************************)
(* SentiCoreX: the analysis orchestration of the App component (quota,     *)
(* validation, single / batch / compare / deeper-analysis handlers) and    *)
(* the Gemini service with its local fallback classifier.                  *)
(*                                                                         *)
(* A text is a sequence of one-character strings.  Every await of the      *)
(* handlers is a point where the handler is suspended: the part before an  *)
(* await and the continuation after it are separate actions.               *)
(***************************************************************************)
EXTENDS Integers, Sequences, FiniteSets, TLC

\* ------------------------------------------------------------------------
\* Program constants
\* ------------------------------------------------------------------------
MAX_ANALYSES == 15
BATCH_SLICE_END == 10

\* ------------------------------------------------------------------------
\* Bounds of the model
\* ------------------------------------------------------------------------
\* longest batch the user submits under Spec
MaxBatchLen == 2
\* requests (analyze or compare) admitted in one behaviour of Spec and SpecCore
MaxRequests == 2
\* texts and comparisons admitted in one behaviour of Spec and SpecCore
MaxUnits == 3
\* deeper-analysis calls that may be in flight at once
MaxDeeperInFlight == 1
\* requests admitted in one behaviour of SpecQuota
MaxQuotaRequests == 3
\* a long batch of SpecQuota has up to BATCH_SLICE_END + MaxOverCap texts
MaxOverCap == 2
\* requests admitted in one behaviour of SpecInput
MaxInputRequests == 1
\* analyses admitted in one behaviour of SpecDeeper
MaxDeeperRequests == 2
\* deeper-analysis calls that may be in flight at once under SpecDeeper
MaxDeeperOverlap == 2
\* requests admitted in one behaviour of SpecService
MaxServiceRequests == 1

\* ------------------------------------------------------------------------
\* Characters and strings
\* ------------------------------------------------------------------------
LowerLetters ==
  <<"a","b","c","d","e","f","g","h","i","j","k","l","m",
    "n","o","p","q","r","s","t","u","v","w","x","y","z">>

UpperLetters ==
  <<"A","B","C","D","E","F","G","H","I","J","K","L","M",
    "N","O","P","Q","R","S","T","U","V","W","X","Y","Z">>

Digits == <<"0","1","2","3","4","5","6","7","8","9">>

Letters == {LowerLetters[i] : i \in 1..26} \cup {UpperLetters[i] : i \in 1..26}

\* /[a-zA-Z]/
IsLetter(c) == c \in Letters

\* /[.'"]/
IsForbiddenPunctuation(c) == c \in {".", "'", "\""}

\* String.prototype.toLowerCase, one character
LowerChar(c) ==
  IF \E i \in 1..26 : c = UpperLetters[i]
  THEN LowerLetters[CHOOSE i \in 1..26 : c = UpperLetters[i]]
  ELSE c

toLowerCase(text) == [i \in 1..Len(text) |-> LowerChar(text[i])]

\* String.prototype.includes
includes(text, word) ==
  \E k \in 0..(Len(text) - Len(word)) :
    \A j \in 1..Len(word) : text[k + j] = word[j]

Min(a, b) == IF a < b THEN a ELSE b

\* ------------------------------------------------------------------------
\* Numbers.  A JavaScript number of the results is an IEEE 754 double.  The
\* model writes the real number milli/1000 + err * 2^-60 / 1000 as
\* [milli, err]; every double between 2^-7 and 2 that lies within 2^-40 of
\* a thousandth is written exactly, and so is every sum, difference or small
\* multiple of such doubles before it is rounded.
\* ------------------------------------------------------------------------
RECURSIVE Pow2(_)
Pow2(n) == IF n = 0 THEN 1 ELSE 2 * Pow2(n - 1)

\* 2^n mod 1000 for n up to 60, computed from four powers of at most 2^15
Pow2Mod1000(n) ==
  LET q == n \div 4
      p == Pow2(q) % 1000
  IN (((((p * p) % 1000) * p) % 1000) * (Pow2(n - 3 * q) % 1000)) % 1000

\* x >= 2^-j
AtLeastPow2(x, j) ==
  LET m == x.milli * Pow2(j) IN m > 1000 \/ (m = 1000 /\ x.err >= 0)

\* round to nearest, ties to even: the double that an operation with the
\* exact result x yields
RoundToDouble(x) ==
  IF x.milli = 0 /\ x.err = 0 THEN x
  ELSE LET j == CHOOSE i \in 0..7 :
                  AtLeastPow2(x, i) /\ (i = 0 \/ ~ AtLeastPow2(x, i - 1))
           ulp == 1000 * Pow2(8 - j)
           base == Pow2(9 - j) * ((x.milli * Pow2Mod1000(51 + j)) % 1000)
           pos == (base + x.err) % (2 * ulp)
           r == pos % ulp
           up == 2 * r > ulp \/ (2 * r = ulp /\ pos >= ulp)
       IN [milli |-> x.milli, err |-> IF up THEN x.err + ulp - r ELSE x.err - r]

\* a decimal literal of the code, in thousandths: 0.05 is Num(50)
Num(milli) == RoundToDouble([milli |-> milli, err |-> 0])

\* n * x for a small integer n
NumTimes(n, x) == RoundToDouble([milli |-> n * x.milli, err |-> n * x.err])

NumPlus(x, y) == RoundToDouble([milli |-> x.milli + y.milli, err |-> x.err + y.err])

NumMinus(x, y) == RoundToDouble([milli |-> x.milli - y.milli, err |-> x.err - y.err])

\* x / 2 is exact; the thousandths of x are even wherever the code halves
NumHalf(x) == [milli |-> x.milli \div 2, err |-> x.err \div 2]

NumLess(x, y) == x.milli < y.milli \/ (x.milli = y.milli /\ x.err < y.err)

\* Math.min
NumMin(x, y) == IF NumLess(y, x) THEN y ELSE x

\* ------------------------------------------------------------------------
\* isValidTextInput
\* ------------------------------------------------------------------------
MsgNoLetters ==
  "Invalid input. Please enter text that includes letters, not just numbers or symbols."
MsgPunctuation ==
  "Invalid input. The input must not include full stops and inverted commas."

\* the validation without its letters rule
isValidTextInputPunctuationOnly(text) ==
  IF \E i \in 1..Len(text) : IsForbiddenPunctuation(text[i])
  THEN [valid |-> FALSE, message |-> MsgPunctuation]
  ELSE [valid |-> TRUE, message |-> ""]

\* the validation with a punctuation rule that misses the full stop
isValidTextInputQuotesOnly(text) ==
  IF ~ \E i \in 1..Len(text) : IsLetter(text[i])
  THEN [valid |-> FALSE, message |-> MsgNoLetters]
  ELSE IF \E i \in 1..Len(text) : text[i] \in {"'", "\""}
       THEN [valid |-> FALSE, message |-> MsgPunctuation]
       ELSE [valid |-> TRUE, message |-> ""]

isValidTextInput(text) ==
  IF ~ \E i \in 1..Len(text) : IsLetter(text[i])
  THEN [valid |-> FALSE, message |-> MsgNoLetters]
  ELSE IF \E i \in 1..Len(text) : IsForbiddenPunctuation(text[i])
       THEN [valid |-> FALSE, message |-> MsgPunctuation]
       ELSE [valid |-> TRUE, message |-> ""]

\* ------------------------------------------------------------------------
\* geminiService: extractKeywords
\* ------------------------------------------------------------------------
stopWords ==
  {<<"a">>, <<"a","n">>, <<"t","h","e">>, <<"a","n","d">>, <<"o","r">>,
    <<"b","u","t">>, <<"i","n">>, <<"o","n">>, <<"a","t">>, <<"t","o">>,
    <<"f","o","r">>, <<"o","f">>, <<"w","i","t","h">>, <<"b","y">>,
    <<"i","s">>, <<"a","r","e">>, <<"w","a","s">>, <<"w","e","r","e">>,
    <<"b","e">>, <<"b","e","e","n">>, <<"h","a","v","e">>, <<"h","a","s">>,
    <<"h","a","d">>, <<"d","o">>, <<"d","o","e","s">>, <<"d","i","d">>,
    <<"w","i","l","l">>, <<"w","o","u","l","d">>, <<"c","o","u","l","d">>,
    <<"s","h","o","u","l","d">>, <<"m","a","y">>, <<"m","i","g","h","t">>,
    <<"m","u","s","t">>, <<"c","a","n">>, <<"t","h","i","s">>,
    <<"t","h","a","t">>, <<"t","h","e","s","e">>, <<"t","h","o","s","e">>,
    <<"i">>, <<"y","o","u">>, <<"h","e">>, <<"s","h","e">>, <<"i","t">>,
    <<"w","e">>, <<"t","h","e","y">>, <<"m","e">>, <<"h","i","m">>,
    <<"h","e","r">>, <<"u","s">>, <<"t","h","e","m">>}

\* \w of a lower-cased text
IsWordChar(c) ==
  \/ \E i \in 1..26 : c = LowerLetters[i]
  \/ \E i \in 1..10 : c = Digits[i]
  \/ c = "_"

\* replace(/[^\w\s]/g, ' ').split(/\s+/): the runs of word characters from
\* position i on, cur being the run in progress.  The empty strings that
\* split yields at the ends of the text are left out: the filter drops them.
RECURSIVE SplitWords(_, _, _)
SplitWords(s, i, cur) ==
  IF i > Len(s) THEN (IF cur = <<>> THEN <<>> ELSE <<cur>>)
  ELSE IF IsWordChar(s[i]) THEN SplitWords(s, i + 1, Append(cur, s[i]))
  ELSE (IF cur = <<>> THEN <<>> ELSE <<cur>>) \o SplitWords(s, i + 1, <<>>)

DigitValue(c) == (CHOOSE i \in 1..10 : Digits[i] = c) - 1

\* a < b for two numerals of the same length
RECURSIVE NumeralLess(_, _)
NumeralLess(a, b) ==
  IF a = <<>> THEN FALSE
  ELSE \/ DigitValue(Head(a)) < DigitValue(Head(b))
       \/ (Head(a) = Head(b) /\ NumeralLess(Tail(a), Tail(b)))

\* A property key that is an array index, the canonical numeral of an integer
\* from 0 to 2^32 - 2: an object lists these keys first, in ascending order.
IsArrayIndex(w) ==
  /\ w # <<>>
  /\ \A i \in 1..Len(w) : \E d \in 1..10 : w[i] = Digits[d]
  /\ (w[1] = "0") => (Len(w) = 1)
  /\ \/ Len(w) < 10
     \/ (Len(w) = 10
         /\ ~ NumeralLess(<<"4","2","9","4","9","6","7","2","9","4">>, w))

\* Object.entries(wordCount): key a is listed before key b, first[w] being the
\* position at which w was inserted
EntryBefore(a, b, first) ==
  IF IsArrayIndex(a)
  THEN IsArrayIndex(b) => (Len(a) < Len(b) \/ (Len(a) = Len(b) /\ NumeralLess(a, b)))
  ELSE ~ IsArrayIndex(b) /\ first[a] < first[b]

\* wordCount is a plain object: a word that names a property of
\* Object.prototype (constructor, valueOf, ...) is not among the texts of the
\* model.
extractKeywords(text) ==
  LET words == SelectSeq(SplitWords(toLowerCase(text), 1, <<>>),
                         LAMBDA word : Len(word) > 2 /\ word \notin stopWords)
      keys == {words[i] : i \in 1..Len(words)}
      wordCount == [w \in keys |-> Cardinality({i \in 1..Len(words) : words[i] = w})]
      first == [w \in keys |->
                  CHOOSE i \in 1..Len(words) :
                    words[i] = w /\ \A j \in 1..(i - 1) : words[j] # w]
      \* sort((a, b) => b[1] - a[1]): descending count, the order of the
      \* entries kept among equal counts (the sort is stable)
      ahead(a, b) == \/ wordCount[a] > wordCount[b]
                     \/ (wordCount[a] = wordCount[b] /\ EntryBefore(a, b, first))
      place == [w \in keys |-> 1 + Cardinality({v \in keys : ahead(v, w)})]
      sorted == [r \in 1..Cardinality(keys) |-> CHOOSE w \in keys : place[w] = r]
  IN SubSeq(sorted, 1, Min(5, Len(sorted)))

\* ------------------------------------------------------------------------
\* geminiService: the fallback classifier
\* ------------------------------------------------------------------------
positiveWords ==
  << <<"l","o","v","e">>, <<"g","r","e","a","t">>, <<"g","o","o","d">>,
     <<"e","x","c","e","l","l","e","n","t">>, <<"a","m","a","z","i","n","g">>,
     <<"h","a","p","p","y">>, <<"f","a","n","t","a","s","t","i","c">>,
     <<"w","o","n","d","e","r","f","u","l">>, <<"b","e","s","t">>,
     <<"p","e","r","f","e","c","t">> >>

negativeWords ==
  << <<"h","a","t","e">>, <<"t","e","r","r","i","b","l","e">>, <<"b","a","d">>,
     <<"a","w","f","u","l">>, <<"h","o","r","r","i","b","l","e">>,
     <<"s","a","d">>, <<"w","o","r","s","t">>,
     <<"d","i","s","a","p","p","o","i","n","t","i","n","g">>,
     <<"p","o","o","r">> >>

\* every occurrence of a word counted, not every word
CountMatchesEveryOccurrence(words, textLower) ==
  Cardinality({<<i, k>> \in (1..Len(words)) \X (1..Len(textLower)) :
                 /\ k + Len(words[i]) - 1 <= Len(textLower)
                 /\ SubSeq(textLower, k, k + Len(words[i]) - 1) = words[i]})

\* words.filter(word => textLower.includes(word)).length
CountMatches(words, textLower) ==
  Cardinality({i \in 1..Len(words) : includes(textLower, words[i])})

\* the other two scores taken as what the winner leaves, not halved
OtherScoreUnhalved(confidence) == NumMinus(Num(1000), confidence)

\* (1 - confidence) / 2
OtherScore(confidence) == NumHalf(NumMinus(Num(1000), confidence))

\* the confidence without its ceiling
CountConfidenceUncapped(count) == NumPlus(Num(700), NumTimes(count, Num(50)))

\* Math.min(0.95, 0.7 + (count * 0.05))
CountConfidence(count) ==
  NumMin(Num(950), NumPlus(Num(700), NumTimes(count, Num(50))))

\* The confidence and the score of the other two labels for every count of
\* the winning label, 0 standing for a tie: computed once.
FallbackNumbers ==
  [count \in 0..Len(positiveWords) |->
     LET confidence == IF count = 0 THEN Num(750) ELSE CountConfidence(count)
     IN [confidence |-> confidence, other |-> OtherScore(confidence)]]

createFallbackAnalysis(text) ==
  LET textLower == toLowerCase(text)
      positiveCount == CountMatches(positiveWords, textLower)
      negativeCount == CountMatches(negativeWords, textLower)
      sentiment == IF positiveCount > negativeCount THEN "positive"
                   ELSE IF negativeCount > positiveCount THEN "negative"
                   ELSE "neutral"
      numbers == FallbackNumbers[IF positiveCount > negativeCount
                                 THEN positiveCount
                                 ELSE IF negativeCount > positiveCount
                                      THEN negativeCount
                                      ELSE 0]
      confidence == numbers.confidence
      scores == [label \in {"positive", "negative", "neutral"} |->
                   IF sentiment = label THEN confidence ELSE numbers.other]
  IN [text |-> text, sentiment |-> sentiment, confidence |-> confidence,
      scores |-> scores, keywords |-> extractKeywords(text),
      undefined |-> {}, apiUsed |-> "fallback"]

\* ------------------------------------------------------------------------
\* The remote backend, as the service functions see it
\* ------------------------------------------------------------------------
\* What one call of a service function meets:
\*   nokey      getAiClient throws (API_KEY not set), no request is sent
\*   transport  generateContent rejects
\*   badjson    JSON.parse(response.text) throws
\*   null       response.text is the JSON document null
\*   json       response.text parses to an object, the payload
\* required: [...] of the response schema of analyzeSentiment
RequiredFields ==
  {"sentiment", "confidence", "scores", "keywords", "explanation",
   "sentenceBreakdown"}

\* A payload: the values of its fields and the required fields it lacks.  All
\* three scores of a payload of the model are the same number.
Payload(sentiment, confidence, score, absent) ==
  [sentiment |-> sentiment, confidence |-> confidence,
   scores |-> [label \in {"positive", "negative", "neutral"} |-> score],
   keywords |-> << <<"k","e","y">> >>, absent |-> absent]

NoPayload == Payload("", Num(0), Num(0), {})

\* the payload the response schema asks for
SentimentPayloads == {Payload("positive", Num(900), Num(300), {})}

NoKeyReply == [kind |-> "nokey", payload |-> NoPayload]

FailureReplies ==
  {[kind |-> k, payload |-> NoPayload] : k \in {"transport", "badjson", "null"}}

SentimentReplies ==
  FailureReplies \cup {[kind |-> "json", payload |-> p] : p \in SentimentPayloads}

\* replies of the calls whose payload the model does not look into
PlainReplies ==
  FailureReplies \cup {[kind |-> "json", payload |-> NoPayload]}

\* a request reaches the backend unless getAiClient threw
BackendCalled(reply) == reply.kind # "nokey"

\* ------------------------------------------------------------------------
\* geminiService: analyzeSentiment, getMoodEnhancers, performAdvancedAnalysis,
\* compareSentiments.  A service function yields [raised, value]: raised is
\* TRUE when the promise it returns is rejected.
\* ------------------------------------------------------------------------
NoResult ==
  [text |-> <<>>, sentiment |-> "", confidence |-> Num(0),
   scores |-> NoPayload.scores, keywords |-> <<>>, undefined |-> {},
   apiUsed |-> ""]

\* return { text, sentiment: analysis.sentiment, ... , apiUsed: 'gemini' }: a
\* field the payload lacks is undefined in the result, but for
\* sentenceBreakdown, which is then the empty list
ResultOfPayload(text, analysis) ==
  [text |-> text, sentiment |-> analysis.sentiment,
   confidence |-> analysis.confidence, scores |-> analysis.scores,
   keywords |-> analysis.keywords,
   undefined |-> analysis.absent \ {"sentenceBreakdown"}, apiUsed |-> "gemini"]

\* a null payload read without the error reaching the catch block
analyzeSentimentNullUnchecked(text, reply) ==
  IF reply.kind \in {"json", "null"}
  THEN [raised |-> FALSE, value |-> ResultOfPayload(text, reply.payload)]
  ELSE [raised |-> FALSE, value |-> createFallbackAnalysis(text)]

\* a transport error thrown on to the caller
analyzeSentimentRethrows(text, reply) ==
  IF reply.kind = "json"
  THEN [raised |-> FALSE, value |-> ResultOfPayload(text, reply.payload)]
  ELSE IF reply.kind = "transport"
       THEN [raised |-> TRUE, value |-> NoResult]
       ELSE [raised |-> FALSE, value |-> createFallbackAnalysis(text)]

analyzeSentiment(text, reply) ==
  IF reply.kind = "json"
  THEN [raised |-> FALSE, value |-> ResultOfPayload(text, reply.payload)]
  ELSE \* catch (error): every throw inside the try block lands here; reading
       \* analysis.sentiment of a null payload throws too
       [raised |-> FALSE, value |-> createFallbackAnalysis(text)]

NullMood == [quote |-> "null", playlist |-> "null"]
PayloadMood == [quote |-> "backend quote", playlist |-> "backend playlist"]

DefaultMood(sentiment) ==
  IF sentiment = "negative"
  THEN [quote |-> "Even the darkest night will end and the sun will rise. - Victor Hugo",
        playlist |-> "Hopeful Instrumentals"]
  ELSE IF sentiment = "positive"
       THEN [quote |-> "Keep your face always toward the sunshine - Walt Whitman",
             playlist |-> "Feel-Good Indie Rock"]
       ELSE [quote |-> "The universe is under no obligation to make sense to you. - Neil deGrasse Tyson",
             playlist |-> "Focus & Ambient"]

\* a failure of the call handed on to the caller
getMoodEnhancersPropagates(sentiment, text, reply) ==
  IF reply.kind = "json" THEN [raised |-> FALSE, value |-> PayloadMood]
  ELSE IF reply.kind = "null" THEN [raised |-> FALSE, value |-> NullMood]
  ELSE [raised |-> TRUE, value |-> NullMood]

getMoodEnhancers(sentiment, text, reply) ==
  IF reply.kind = "json" THEN [raised |-> FALSE, value |-> PayloadMood]
  ELSE IF reply.kind = "null" THEN [raised |-> FALSE, value |-> NullMood]
  ELSE [raised |-> FALSE, value |-> DefaultMood(sentiment)]

\* An advanced result is identified by the text it was computed from.
NullAdvanced == [forText |-> <<>>, summary |-> "null"]

performAdvancedAnalysis(text, reply) ==
  IF reply.kind = "json"
  THEN [raised |-> FALSE, value |-> [forText |-> text, summary |-> "summary"]]
  ELSE IF reply.kind = "null" THEN [raised |-> FALSE, value |-> NullAdvanced]
  ELSE [raised |-> TRUE, value |-> NullAdvanced]

CompareErrorMsg ==
  "We couldn't compare the texts right now. This might be due to the complexity of the text or a temporary connection issue. Please try again with different text."

NullComparison == [textA |-> <<>>, textB |-> <<>>, summary |-> "null"]

\* a failed comparison answered with a default instead of an error
compareSentimentsDefaults(textA, textB, reply) ==
  IF reply.kind = "json"
  THEN [raised |-> FALSE, message |-> "",
        value |-> [textA |-> textA, textB |-> textB, summary |-> "summary"]]
  ELSE [raised |-> FALSE, message |-> "", value |-> NullComparison]

compareSentiments(textA, textB, reply) ==
  IF reply.kind = "json"
  THEN [raised |-> FALSE, message |-> "",
        value |-> [textA |-> textA, textB |-> textB, summary |-> "summary"]]
  ELSE IF reply.kind = "null"
       THEN [raised |-> FALSE, message |-> "", value |-> NullComparison]
       ELSE [raised |-> TRUE, message |-> CompareErrorMsg, value |-> NullComparison]

\* ------------------------------------------------------------------------
\* State
\* ------------------------------------------------------------------------
VARIABLES
  apiKeySet,             \* process.env.API_KEY is set
  results,               \* useState: the history, newest first
  isLoading,             \* useState: the busy flag
  apiStatus,             \* useState: [status, prefix, message, arg]
  analysisCount,         \* useState: the session usage counter
  currentSentiment,      \* useState
  moodEnhancers,         \* useState: NullMood stands for null
  modalState,            \* useState: the advanced-analysis modal
  comparisonModalState,  \* useState: the comparison modal
  reqs,                  \* suspended handleAnalyze / handleCompare invocations
  deeper,                \* suspended handleDeeperAnalysis invocations
  admitted,              \* history: [requests, units] admitted so far
  comparisonsDone        \* history: comparisons that returned successfully

vars ==
  <<apiKeySet, results, isLoading, apiStatus, analysisCount, currentSentiment,
    moodEnhancers, modalState, comparisonModalState, reqs, deeper, admitted,
    comparisonsDone>>

MsgReady == "Ready to analyze"
MsgUsageLimit ==
  "You've reached your usage limit for this session. You can perform <arg, or 'no' for 0> more analyses."
MsgCompareLimit ==
  "You've reached your usage limit for this session, so a comparison can't be run."
MsgAnalyzing == "Analyzing <arg> text(s)..."
MsgComplete == "Analysis complete for <arg> text(s)!"
MsgOops == "Oops! Something went wrong during the analysis. Please try again shortly."
MsgDeeperFailed ==
  "We couldn't generate the deeper analysis at this moment. Please try again."
MsgCompareDefault ==
  "There was an issue comparing the texts. Please check your input and try again."

Status(status, prefix, message, arg) ==
  [status |-> status, prefix |-> prefix, message |-> message, arg |-> arg]

ModalClosed ==
  [isOpen |-> FALSE, selectedResult |-> NoResult, advancedData |-> NullAdvanced,
   isLoading |-> FALSE, error |-> ""]

ComparisonClosed ==
  [isOpen |-> FALSE, result |-> NullComparison, isLoading |-> FALSE, error |-> ""]

PendingItem == [state |-> "pending", value |-> NoResult]

Settled(r) ==
  [state |-> IF r.raised THEN "rejected" ELSE "fulfilled", value |-> r.value]

RemoveAt(s, i) == SubSeq(s, 1, i - 1) \o SubSeq(s, i + 1, Len(s))

\* the bounds of a specification: the model admits a request only within them
WithinBounds(limit, units) ==
  /\ admitted.requests < limit.requests
  /\ admitted.units + units <= limit.units

Admit(units) ==
  [requests |-> admitted.requests + 1, units |-> admitted.units + units]

Init ==
  /\ apiKeySet \in BOOLEAN
  /\ results = <<>>
  /\ isLoading = FALSE
  /\ apiStatus = Status("ready", "", MsgReady, 0)
  /\ analysisCount = 0
  /\ currentSentiment = ""
  /\ moodEnhancers = NullMood
  /\ modalState = ModalClosed
  /\ comparisonModalState = ComparisonClosed
  /\ reqs = <<>>
  /\ deeper = <<>>
  /\ admitted = [requests |-> 0, units |-> 0]
  /\ comparisonsDone = 0

\* ------------------------------------------------------------------------
\* handleAnalyze, up to its first await
\* ------------------------------------------------------------------------
\* the batch taken whole
TextsOfWholeInput(input, isArray) == IF isArray THEN input ELSE <<input>>

\* const texts = Array.isArray(input) ? input.slice(0, 10) : [input]
TextsOf(input, isArray) ==
  IF isArray THEN SubSeq(input, 1, Min(Len(input), BATCH_SLICE_END)) ELSE <<input>>

\* the validation loop passed over when the texts do not fit the quota: the
\* limit check comes first
FirstInvalidAfterQuota(texts) ==
  IF analysisCount + Len(texts) > MAX_ANALYSES THEN 0
  ELSE IF \E i \in 1..Len(texts) : ~ isValidTextInput(texts[i]).valid
       THEN CHOOSE i \in 1..Len(texts) :
              /\ ~ isValidTextInput(texts[i]).valid
              /\ \A j \in 1..(i - 1) : isValidTextInput(texts[j]).valid
       ELSE 0

\* the first text of the loop that fails validation, 0 when none does
FirstInvalid(texts) ==
  IF \E i \in 1..Len(texts) : ~ isValidTextInput(texts[i]).valid
  THEN CHOOSE i \in 1..Len(texts) :
         /\ ~ isValidTextInput(texts[i]).valid
         /\ \A j \in 1..(i - 1) : isValidTextInput(texts[j]).valid
  ELSE 0

\* texts.map(text => analyzeSentiment(text)): without a credential each call
\* falls back before it reaches its await; otherwise it is in flight
Dispatch(texts) ==
  [i \in 1..Len(texts) |->
     IF apiKeySet THEN PendingItem
     ELSE Settled(analyzeSentiment(texts[i], NoKeyReply))]

\* a check that only asks whether the limit is already reached
QuotaExceededAtLimitOnly(count, analysesToRun) == count >= MAX_ANALYSES

\* if (analysisCount + analysesToRun > MAX_ANALYSES)
QuotaExceeded(count, analysesToRun) == count + analysesToRun > MAX_ANALYSES

\* the allowance reported without the analyses already used
RemainingOfLimit(count) == MAX_ANALYSES

\* const remaining = MAX_ANALYSES - analysisCount
Remaining(count) == MAX_ANALYSES - count

handleAnalyze(input, isArray, limit) ==
  LET texts == TextsOf(input, isArray)
      bad == FirstInvalid(texts)
      analysesToRun == Len(texts)
      remaining == Remaining(analysisCount)
  IN IF bad # 0
     THEN /\ apiStatus' = Status("error", "", isValidTextInput(texts[bad]).message, 0)
          /\ UNCHANGED <<apiKeySet, results, isLoading, analysisCount,
                         currentSentiment, moodEnhancers, modalState,
                         comparisonModalState, reqs, deeper, admitted,
                         comparisonsDone>>
     ELSE IF QuotaExceeded(analysisCount, analysesToRun)
          THEN /\ apiStatus' = Status("error", "", MsgUsageLimit,
                                      IF remaining > 0 THEN remaining ELSE 0)
               /\ UNCHANGED <<apiKeySet, results, isLoading, analysisCount,
                              currentSentiment, moodEnhancers, modalState,
                              comparisonModalState, reqs, deeper, admitted,
                              comparisonsDone>>
          ELSE /\ WithinBounds(limit, analysesToRun)
               /\ isLoading' = TRUE
               /\ moodEnhancers' = NullMood
               /\ apiStatus' = Status("loading", "", MsgAnalyzing, Len(texts))
               /\ reqs' = Append(reqs, [kind |-> "analyze", pc |-> "await_all",
                                        isArray |-> isArray, texts |-> texts,
                                        out |-> Dispatch(texts)])
               /\ admitted' = Admit(analysesToRun)
               /\ UNCHANGED <<apiKeySet, results, analysisCount, currentSentiment,
                              modalState, comparisonModalState, deeper,
                              comparisonsDone>>

\* ------------------------------------------------------------------------
\* InputSection.handleAnalyzeClick
\* ------------------------------------------------------------------------
\* a click handler that does not look at the busy flag
ClickAllowedWhileBusy == ~ (analysisCount >= MAX_ANALYSES)

\* if (isLoading || limitReached) return
ClickAllowed == ~ (isLoading \/ analysisCount >= MAX_ANALYSES)

\* Text, File and Voice tabs: onAnalyze(textInput)
ClickAnalyzeSingle(text, limit) ==
  ClickAllowed /\ handleAnalyze(text, FALSE, limit)

\* Batch tab: onAnalyze(batchInput.split('\n').map(t => t.trim()).filter(Boolean))
ClickAnalyzeBatch(texts, limit) ==
  ClickAllowed /\ handleAnalyze(texts, TRUE, limit)

\* the early return: a click while busy or at the limit changes nothing
ClickIgnored == ~ ClickAllowed /\ UNCHANGED vars

\* an answer stored in the first slot still open: the results in the order
\* in which the calls complete
SentimentResponseCompletionOrder(id, i, reply) ==
  /\ id \in 1..Len(reqs)
  /\ reqs[id].kind = "analyze"
  /\ reqs[id].pc = "await_all"
  /\ i \in 1..Len(reqs[id].texts)
  /\ reqs[id].out[i].state = "pending"
  /\ LET slot == CHOOSE k \in 1..Len(reqs[id].out) :
                   /\ reqs[id].out[k].state = "pending"
                   /\ \A j \in 1..(k - 1) : reqs[id].out[j].state # "pending"
     IN reqs' = [reqs EXCEPT ![id].out[slot] =
                   Settled(analyzeSentiment(reqs[id].texts[i], reply))]
  /\ UNCHANGED <<apiKeySet, results, isLoading, apiStatus, analysisCount,
                 currentSentiment, moodEnhancers, modalState,
                 comparisonModalState, deeper, admitted, comparisonsDone>>

\* a sentiment call that failed issued again: the fallback is computed and
\* the call is left in flight
SentimentResponseRetries(id, i, reply) ==
  /\ id \in 1..Len(reqs)
  /\ reqs[id].kind = "analyze"
  /\ reqs[id].pc = "await_all"
  /\ i \in 1..Len(reqs[id].texts)
  /\ reqs[id].out[i].state = "pending"
  /\ reqs' = [reqs EXCEPT ![id].out[i] =
                IF reply.kind = "json"
                THEN Settled(analyzeSentiment(reqs[id].texts[i], reply))
                ELSE [state |-> "pending",
                      value |-> analyzeSentiment(reqs[id].texts[i], reply).value]]
  /\ UNCHANGED <<apiKeySet, results, isLoading, apiStatus, analysisCount,
                 currentSentiment, moodEnhancers, modalState,
                 comparisonModalState, deeper, admitted, comparisonsDone>>

\* ------------------------------------------------------------------------
\* handleAnalyze, after its awaits
\* ------------------------------------------------------------------------
\* one analyzeSentiment call of a suspended handleAnalyze returns
SentimentResponse(id, i, reply) ==
  /\ id \in 1..Len(reqs)
  /\ reqs[id].kind = "analyze"
  /\ reqs[id].pc = "await_all"
  /\ i \in 1..Len(reqs[id].texts)
  /\ reqs[id].out[i].state = "pending"
  /\ reqs' = [reqs EXCEPT ![id].out[i] =
                Settled(analyzeSentiment(reqs[id].texts[i], reply))]
  /\ UNCHANGED <<apiKeySet, results, isLoading, apiStatus, analysisCount,
                 currentSentiment, moodEnhancers, modalState,
                 comparisonModalState, deeper, admitted, comparisonsDone>>

\* setAnalysisCount(prev => prev + newResults.length)
AnalyzeCharge(prev, newResults) == prev + Len(newResults)

\* a mood call after every analysis, whatever the number of its results
MoodWantedAlways(newResults) == TRUE

\* if (newResults.length === 1)
MoodWanted(newResults) == Len(newResults) = 1

\* the busy flag cleared as soon as the results are committed, before the
\* mood-enhancement call is awaited
AnalyzeResumeClearsBusyAtCommit(id) ==
  /\ id \in 1..Len(reqs)
  /\ reqs[id].kind = "analyze"
  /\ reqs[id].pc = "await_all"
  /\ LET out == reqs[id].out
         n == Len(out)
         newResults == [i \in 1..n |-> out[i].value]
     IN IF \E i \in 1..n : out[i].state = "rejected"
        THEN /\ apiStatus' = Status("error", "", MsgOops, 0)
             /\ reqs' = RemoveAt(reqs, id)
             /\ UNCHANGED <<results, analysisCount, currentSentiment>>
        ELSE /\ \A i \in 1..n : out[i].state = "fulfilled"
             /\ results' = newResults \o results
             /\ analysisCount' = AnalyzeCharge(analysisCount, newResults)
             /\ currentSentiment' = newResults[1].sentiment
             /\ apiStatus' = Status("success", "", MsgComplete, Len(newResults))
             /\ reqs' = IF MoodWanted(newResults)
                        THEN [reqs EXCEPT ![id].pc = "await_mood"]
                        ELSE RemoveAt(reqs, id)
  /\ isLoading' = FALSE
  /\ UNCHANGED <<apiKeySet, moodEnhancers, modalState, comparisonModalState,
                 deeper, admitted, comparisonsDone>>

\* Promise.all settles: fulfilled when every call is, rejected with the first
\* rejection.  The handler runs on to the await of getMoodEnhancers (one
\* result) or to its end.
AnalyzeResume(id) ==
  /\ id \in 1..Len(reqs)
  /\ reqs[id].kind = "analyze"
  /\ reqs[id].pc = "await_all"
  /\ LET out == reqs[id].out
         n == Len(out)
         newResults == [i \in 1..n |-> out[i].value]
     IN IF \E i \in 1..n : out[i].state = "rejected"
        THEN \* catch (error) ... finally
             /\ apiStatus' = Status("error", "", MsgOops, 0)
             /\ isLoading' = FALSE
             /\ reqs' = RemoveAt(reqs, id)
             /\ UNCHANGED <<results, analysisCount, currentSentiment>>
        ELSE /\ \A i \in 1..n : out[i].state = "fulfilled"
             /\ results' = newResults \o results
             /\ analysisCount' = AnalyzeCharge(analysisCount, newResults)
             /\ currentSentiment' = newResults[1].sentiment
             /\ apiStatus' = Status("success", "", MsgComplete, Len(newResults))
             /\ IF MoodWanted(newResults)
                THEN /\ reqs' = [reqs EXCEPT ![id].pc = "await_mood"]
                     /\ UNCHANGED isLoading
                ELSE /\ reqs' = RemoveAt(reqs, id)
                     /\ isLoading' = FALSE
  /\ UNCHANGED <<apiKeySet, moodEnhancers, modalState, comparisonModalState,
                 deeper, admitted, comparisonsDone>>

\* a failed mood call taken to the catch block of the analysis
MoodSettledReportsFailure(id, reply) ==
  /\ id \in 1..Len(reqs)
  /\ reqs[id].kind = "analyze"
  /\ reqs[id].pc = "await_mood"
  /\ (reply.kind = "nokey") = (~ apiKeySet)
  /\ LET first == reqs[id].out[1].value
         enhancers == getMoodEnhancers(first.sentiment, first.text, reply)
     IN IF reply.kind \in {"nokey", "transport", "badjson"}
        THEN /\ apiStatus' = Status("error", "", MsgOops, 0)
             /\ UNCHANGED moodEnhancers
        ELSE /\ moodEnhancers' = enhancers.value
             /\ UNCHANGED apiStatus
  /\ isLoading' = FALSE
  /\ reqs' = RemoveAt(reqs, id)
  /\ UNCHANGED <<apiKeySet, results, analysisCount, currentSentiment,
                 modalState, comparisonModalState, deeper, admitted,
                 comparisonsDone>>

\* getMoodEnhancers returns and the handler runs to its end
MoodSettled(id, reply) ==
  /\ id \in 1..Len(reqs)
  /\ reqs[id].kind = "analyze"
  /\ reqs[id].pc = "await_mood"
  /\ (reply.kind = "nokey") = (~ apiKeySet)
  /\ LET first == reqs[id].out[1].value
         enhancers == getMoodEnhancers(first.sentiment, first.text, reply)
     IN moodEnhancers' = IF enhancers.raised THEN moodEnhancers ELSE enhancers.value
  /\ isLoading' = FALSE
  /\ reqs' = RemoveAt(reqs, id)
  /\ UNCHANGED <<apiKeySet, results, apiStatus, analysisCount, currentSentiment,
                 modalState, comparisonModalState, deeper, admitted,
                 comparisonsDone>>

\* ------------------------------------------------------------------------
\* handleCompare
\* ------------------------------------------------------------------------
handleCompare(textA, textB, limit) ==
  LET validationA == isValidTextInput(textA)
      validationB == isValidTextInput(textB)
      frame == <<apiKeySet, results, isLoading, analysisCount, currentSentiment,
                 moodEnhancers, modalState, comparisonModalState, reqs, deeper,
                 admitted, comparisonsDone>>
  IN IF analysisCount >= MAX_ANALYSES
     THEN /\ apiStatus' = Status("error", "", MsgCompareLimit, 0)
          /\ UNCHANGED frame
     ELSE IF ~ validationA.valid
          THEN /\ apiStatus' = Status("error", "Text A: ", validationA.message, 0)
               /\ UNCHANGED frame
          ELSE IF ~ validationB.valid
               THEN /\ apiStatus' = Status("error", "Text B: ", validationB.message, 0)
                    /\ UNCHANGED frame
               ELSE /\ WithinBounds(limit, 1)
                    /\ isLoading' = TRUE
                    /\ comparisonModalState' =
                         [isOpen |-> TRUE, result |-> NullComparison,
                          isLoading |-> TRUE, error |-> ""]
                    /\ reqs' = Append(reqs, [kind |-> "compare", pc |-> "await_compare",
                                             texts |-> <<textA, textB>>, out |-> <<>>])
                    /\ admitted' = Admit(1)
                    /\ UNCHANGED <<apiKeySet, results, apiStatus, analysisCount,
                                   currentSentiment, moodEnhancers, modalState,
                                   deeper, comparisonsDone>>

\* Compare tab: onCompare(compareTextA, compareTextB)
ClickCompare(textA, textB, limit) ==
  ClickAllowed /\ handleCompare(textA, textB, limit)

\* a comparison charged once for each of its two texts
CompareChargePerText(prev) == prev + 2

\* setAnalysisCount(prev => prev + 1)
CompareCharge(prev) == prev + 1

\* compareSentiments returns or throws and the handler runs to its end
CompareSettled(id, reply) ==
  /\ id \in 1..Len(reqs)
  /\ reqs[id].kind = "compare"
  /\ (reply.kind = "nokey") = (~ apiKeySet)
  /\ LET result == compareSentiments(reqs[id].texts[1], reqs[id].texts[2], reply)
     IN IF ~ result.raised
        THEN /\ comparisonModalState' =
                  [isOpen |-> TRUE, result |-> result.value,
                   isLoading |-> FALSE, error |-> ""]
             /\ analysisCount' = CompareCharge(analysisCount)
             /\ comparisonsDone' = comparisonsDone + 1
        ELSE /\ comparisonModalState' =
                  [isOpen |-> TRUE, result |-> NullComparison, isLoading |-> FALSE,
                   error |-> IF result.message # "" THEN result.message
                             ELSE MsgCompareDefault]
             /\ UNCHANGED <<analysisCount, comparisonsDone>>
  /\ isLoading' = FALSE
  /\ reqs' = RemoveAt(reqs, id)
  /\ UNCHANGED <<apiKeySet, results, apiStatus, currentSentiment, moodEnhancers,
                 modalState, deeper, admitted>>

\* ComparativeAnalysisModal onClose
CloseComparisonModal ==
  /\ comparisonModalState.isOpen
  /\ comparisonModalState' = ComparisonClosed
  /\ UNCHANGED <<apiKeySet, results, isLoading, apiStatus, analysisCount,
                 currentSentiment, moodEnhancers, modalState, reqs, deeper,
                 admitted, comparisonsDone>>

\* ------------------------------------------------------------------------
\* handleDeeperAnalysis
\* ------------------------------------------------------------------------
\* ResultCard onDeeperAnalysis, up to the await; inFlight bounds the calls
\* the model lets overlap
DeeperClick(k, inFlight) ==
  /\ k \in 1..Len(results)
  /\ Len(deeper) < inFlight
  /\ modalState' = [isOpen |-> TRUE, selectedResult |-> results[k],
                    advancedData |-> NullAdvanced, isLoading |-> TRUE, error |-> ""]
  /\ deeper' = Append(deeper, [text |-> results[k].text])
  /\ UNCHANGED <<apiKeySet, results, isLoading, apiStatus, analysisCount,
                 currentSentiment, moodEnhancers, comparisonModalState, reqs,
                 admitted, comparisonsDone>>

ClickDeeperAnalysis(k) == DeeperClick(k, MaxDeeperInFlight)

\* performAdvancedAnalysis returns or throws and the handler runs to its end
DeeperSettled(j, reply) ==
  /\ j \in 1..Len(deeper)
  /\ (reply.kind = "nokey") = (~ apiKeySet)
  /\ LET advanced == performAdvancedAnalysis(deeper[j].text, reply)
     IN modalState' =
          IF ~ advanced.raised
          THEN [modalState EXCEPT !.advancedData = advanced.value,
                                  !.isLoading = FALSE]
          ELSE [modalState EXCEPT !.isLoading = FALSE, !.error = MsgDeeperFailed]
  /\ deeper' = RemoveAt(deeper, j)
  /\ UNCHANGED <<apiKeySet, results, isLoading, apiStatus, analysisCount,
                 currentSentiment, moodEnhancers, comparisonModalState, reqs,
                 admitted, comparisonsDone>>

\* AdvancedAnalysisModal onClose
CloseAdvancedModal ==
  /\ modalState.isOpen
  /\ modalState' = ModalClosed
  /\ UNCHANGED <<apiKeySet, results, isLoading, apiStatus, analysisCount,
                 currentSentiment, moodEnhancers, comparisonModalState, reqs,
                 deeper, admitted, comparisonsDone>>

\* ------------------------------------------------------------------------
\* What the user submits
\* ------------------------------------------------------------------------
TextGood == <<"G","o","o","d">>
TextBad == <<"b","a","d">>
TextDigits == <<"1","2">>
TextFullStop == <<"b","a","d",".">>
TextSingleQuote == <<"i","t","'","s">>
TextDoubleQuote == <<"\"","h","i","\"">>

ValidTexts == {TextGood, TextBad}
InvalidTexts == {TextDigits, TextFullStop, TextSingleQuote, TextDoubleQuote}
TextPool == ValidTexts \cup InvalidTexts

\* batches of valid lines, and batches of "Good" lines with one invalid line
BatchInputs ==
  UNION {[1..n -> ValidTexts]
           \cup {[i \in 1..n |-> IF i = p THEN text ELSE TextGood] :
                   p \in 1..n, text \in InvalidTexts} :
         n \in 1..MaxBatchLen}

\* pairs of valid texts, and pairs with an invalid text A, B or both
ComparePairs ==
  (ValidTexts \X ValidTexts)
    \cup (InvalidTexts \X {TextGood}) \cup ({TextGood} \X InvalidTexts)
    \cup {<<TextDigits, TextFullStop>>}

AnyReplies == PlainReplies \cup {NoKeyReply}

\* ------------------------------------------------------------------------
\* Spec: every reply and every order of replies, short batches
\* ------------------------------------------------------------------------
CoreLimit == [requests |-> MaxRequests, units |-> MaxUnits]

UserAnalyzeSingle == \E text \in TextPool : ClickAnalyzeSingle(text, CoreLimit)
UserAnalyzeBatch == \E texts \in BatchInputs : ClickAnalyzeBatch(texts, CoreLimit)
UserCompare == \E pair \in ComparePairs : ClickCompare(pair[1], pair[2], CoreLimit)
UserDeeperAnalysis == \E k \in 1..Len(results) : ClickDeeperAnalysis(k)
BackendSentiment ==
  \E id \in 1..Len(reqs), i \in 1..MaxBatchLen, reply \in SentimentReplies :
    SentimentResponse(id, i, reply)
ResumeAnalyze == \E id \in 1..Len(reqs) : AnalyzeResume(id)
BackendMood == \E id \in 1..Len(reqs), reply \in AnyReplies : MoodSettled(id, reply)
BackendCompare == \E id \in 1..Len(reqs), reply \in AnyReplies : CompareSettled(id, reply)
BackendDeeper == \E j \in 1..Len(deeper), reply \in AnyReplies : DeeperSettled(j, reply)

\* analyze and compare requests
NextCore ==
  \/ ClickIgnored
  \/ UserAnalyzeSingle
  \/ UserAnalyzeBatch
  \/ UserCompare
  \/ BackendSentiment
  \/ ResumeAnalyze
  \/ BackendMood
  \/ BackendCompare
  \/ CloseComparisonModal

SpecCore == Init /\ [][NextCore]_vars

\* the whole App
Next ==
  \/ NextCore
  \/ UserDeeperAnalysis
  \/ BackendDeeper
  \/ CloseAdvancedModal

Spec == Init /\ [][Next]_vars

\* ------------------------------------------------------------------------
\* SpecQuota: long batches up to and over the quota, a backend that answers
\* every sentiment call, in the order of the calls
\* ------------------------------------------------------------------------
\* "t1", "t2", ..., "t12": the i-th line of a long batch
ItemText(i) ==
  IF i < 10 THEN <<"t", Digits[i + 1]>>
  ELSE <<"t", Digits[(i \div 10) + 1], Digits[(i % 10) + 1]>>

LongBatch(n) == [i \in 1..n |-> ItemText(i)]

\* the long batch with its p-th line replaced
WithLine(n, p, text) == [i \in 1..n |-> IF i = p THEN text ELSE ItemText(i)]

\* short batches that add up to 13, 14 and 15, and the batches of 10 and more
QuotaBatchLens == {1, 3, 4} \cup (BATCH_SLICE_END..(BATCH_SLICE_END + MaxOverCap))

\* a bad line first, tenth or last in a batch of 3 and in one of 11
QuotaBadBatches ==
  UNION {{WithLine(n, p, text) :
            p \in {1, Min(n, BATCH_SLICE_END), n}, text \in InvalidTexts} :
         n \in {3, BATCH_SLICE_END + 1}}

QuotaBatchInputs == {LongBatch(n) : n \in QuotaBatchLens} \cup QuotaBadBatches

QuotaSingleInputs == {ItemText(1)} \cup InvalidTexts

QuotaComparePairs ==
  {<<ItemText(1), ItemText(2)>>}
    \cup (InvalidTexts \X {ItemText(2)}) \cup ({ItemText(1)} \X InvalidTexts)

FirstPending(out) ==
  CHOOSE i \in 1..Len(out) :
    /\ out[i].state = "pending"
    /\ \A j \in 1..(i - 1) : out[j].state # "pending"

QuotaLimit ==
  [requests |-> MaxQuotaRequests, units |-> MaxQuotaRequests * BATCH_SLICE_END]

QuotaAnalyzeSingle ==
  \E text \in QuotaSingleInputs : ClickAnalyzeSingle(text, QuotaLimit)
QuotaAnalyzeBatch ==
  \E texts \in QuotaBatchInputs : ClickAnalyzeBatch(texts, QuotaLimit)
QuotaCompare ==
  \E pair \in QuotaComparePairs : ClickCompare(pair[1], pair[2], QuotaLimit)
QuotaBackendSentiment ==
  \E id \in 1..Len(reqs), payload \in SentimentPayloads :
    /\ reqs[id].kind = "analyze"
    /\ \E i \in 1..Len(reqs[id].out) : reqs[id].out[i].state = "pending"
    /\ SentimentResponse(id, FirstPending(reqs[id].out),
                         [kind |-> "json", payload |-> payload])

\* deeper analysis of the newest result
QuotaDeeperAnalysis == ClickDeeperAnalysis(1)

NextQuota ==
  \/ ClickIgnored
  \/ QuotaAnalyzeSingle
  \/ QuotaAnalyzeBatch
  \/ QuotaCompare
  \/ QuotaDeeperAnalysis
  \/ QuotaBackendSentiment
  \/ ResumeAnalyze
  \/ BackendMood
  \/ BackendCompare
  \/ BackendDeeper

SpecQuota == Init /\ [][NextQuota]_vars

\* ------------------------------------------------------------------------
\* The specification of the input checks: the same requests, a session that
\* ends after few of them were started
\* ------------------------------------------------------------------------
InputLimit ==
  [requests |-> MaxInputRequests,
   units |-> MaxInputRequests * (BATCH_SLICE_END + MaxOverCap)]

InputAnalyzeSingle ==
  \E text \in QuotaSingleInputs : ClickAnalyzeSingle(text, InputLimit)
InputAnalyzeBatch ==
  \E texts \in QuotaBatchInputs : ClickAnalyzeBatch(texts, InputLimit)
InputCompare ==
  \E pair \in QuotaComparePairs : ClickCompare(pair[1], pair[2], InputLimit)

NextInput ==
  \/ ClickIgnored
  \/ InputAnalyzeSingle
  \/ InputAnalyzeBatch
  \/ InputCompare
  \/ QuotaBackendSentiment
  \/ ResumeAnalyze
  \/ BackendMood
  \/ BackendCompare
  \/ CloseComparisonModal

SpecInput == Init /\ [][NextInput]_vars

\* ------------------------------------------------------------------------
\* The specification of deeper analysis: few results, and deeper-analysis
\* calls that overlap (the modal closed and a card clicked again before the
\* first call has answered)
\* ------------------------------------------------------------------------
DeeperLimit == [requests |-> MaxDeeperRequests, units |-> MaxDeeperRequests]

DeeperAnalyzeSingle ==
  \E text \in ValidTexts : ClickAnalyzeSingle(text, DeeperLimit)
DeeperOverlapping ==
  \E k \in 1..Len(results) : DeeperClick(k, MaxDeeperOverlap)

NextDeeper ==
  \/ ClickIgnored
  \/ DeeperAnalyzeSingle
  \/ QuotaBackendSentiment
  \/ ResumeAnalyze
  \/ BackendMood
  \/ DeeperOverlapping
  \/ BackendDeeper
  \/ CloseAdvancedModal

SpecDeeper == Init /\ [][NextDeeper]_vars

\* ------------------------------------------------------------------------
\* SpecService: one request after the other over texts that exercise the
\* fallback classifier and the keyword extraction, with payloads that keep
\* and payloads that break the response schema, and every mood reply
\* ------------------------------------------------------------------------
\* "I love this!"
TextLoveThis == <<"I"," ","l","o","v","e"," ","t","h","i","s","!">>

ServiceTexts ==
  {TextGood, TextBad, TextLoveThis,
    \* "ok then x_y the": no lexicon word
    <<"o","k"," ","t","h","e","n"," ","x","_","y"," ","t","h","e">>,
    \* "good bad": one positive and one negative word
    <<"g","o","o","d"," ","b","a","d">>,
    \* "Good good bad sad": one positive word twice and two negative words
    <<"G","o","o","d"," ","g","o","o","d"," ","b","a","d"," ","s","a","d">>,
    \* "unhappy": a positive word inside another word
    <<"u","n","h","a","p","p","y">>,
    \* "sad awful poor": three negative words
    <<"s","a","d"," ","a","w","f","u","l"," ","p","o","o","r">>,
    \* "hate bad sad poor": four negative words
    <<"h","a","t","e"," ","b","a","d"," ","s","a","d"," ","p","o","o","r">>,
    \* "love great good best happy": five positive words
    <<"l","o","v","e"," ","g","r","e","a","t"," ","g","o","o","d"," ","b",
      "e","s","t"," ","h","a","p","p","y">>,
    \* "love great good best happy amazing": six positive words
    <<"l","o","v","e"," ","g","r","e","a","t"," ","g","o","o","d"," ","b",
      "e","s","t"," ","h","a","p","p","y"," ","a","m","a","z","i","n","g">>,
    \* "abc 123": a word and a number
    <<"a","b","c"," ","1","2","3">>,
    \* "red red tea tea tea cat dog fox owl": six words, two repeated
    <<"r","e","d"," ","r","e","d"," ","t","e","a"," ","t","e","a"," ","t",
      "e","a"," ","c","a","t"," ","d","o","g"," ","f","o","x"," ","o","w",
      "l">>}

\* batches of one and of two texts
ServiceBatchInputs ==
  {<<TextLoveThis>>, <<TextGood, TextBad>>, <<TextBad, TextLoveThis>>}

\* payloads that parse as JSON and break the response schema: a sentiment
\* outside the enumeration, required fields missing ({} has none of them),
\* a confidence of 1.5, scores of 1.5
BrokenPayloads ==
  {Payload("mixed", Num(900), Num(300), {}),
   Payload("", Num(900), Num(300), {"sentiment"}),
   Payload("", Num(0), Num(0), RequiredFields),
   Payload("positive", Num(1500), Num(300), {}),
   Payload("negative", Num(900), Num(1500), {})}

\* every text meets the replies of SentimentReplies; "Good" also meets the
\* payloads that break the schema
ServiceReplies(text) ==
  SentimentReplies
    \cup (IF text = TextGood
          THEN {[kind |-> "json", payload |-> p] : p \in BrokenPayloads}
          ELSE {})

ServiceLimit ==
  [requests |-> MaxServiceRequests, units |-> 2 * MaxServiceRequests]

ServiceAnalyzeSingle ==
  \E text \in ServiceTexts : ClickAnalyzeSingle(text, ServiceLimit)
ServiceAnalyzeBatch ==
  \E texts \in ServiceBatchInputs : ClickAnalyzeBatch(texts, ServiceLimit)
ServiceBackendSentiment ==
  \E id \in 1..Len(reqs), i \in 1..2 :
    /\ reqs[id].kind = "analyze"
    /\ i \in 1..Len(reqs[id].texts)
    /\ \E reply \in ServiceReplies(reqs[id].texts[i]) :
         SentimentResponse(id, i, reply)

NextService ==
  \/ ClickIgnored
  \/ ServiceAnalyzeSingle
  \/ ServiceAnalyzeBatch
  \/ ServiceBackendSentiment
  \/ ResumeAnalyze
  \/ BackendMood

SpecService == Init /\ [][NextService]_vars

\* ------------------------------------------------------------------------
\* Properties
\* ------------------------------------------------------------------------
\* C1 (SpecQuota): the session usage counter never leaves 0..15, whatever the
\* requests and the replies of the backend.
C1_QuotaCeiling == analysisCount >= 0 /\ analysisCount <= MAX_ANALYSES

\* the quota is used up
C1_Witness == analysisCount = MAX_ANALYSES /\ Len(results) > 0 /\ ~ isLoading

\* C2 (SpecQuota): the counter equals the analyses that completed: the results
\* in the history plus the comparisons that returned.  It holds while a
\* request is admitted and in flight too: admission charges nothing.
C2_QuotaAccounting == analysisCount = Len(results) + comparisonsDone

\* results and a comparison are counted while another request is in flight
C2_Witness ==
  /\ comparisonsDone > 0
  /\ Len(results) > 0
  /\ Len(reqs) = 1
  /\ admitted.units > analysisCount

\* units a suspended request will charge when it resumes
UnitsInFlight(r) ==
  IF r.pc = "await_all" THEN Len(r.texts)
  ELSE IF r.pc = "await_compare" THEN 1 ELSE 0

\* C3 (SpecQuota): no two requests are between their limit check and their
\* commit at once, and what the one request in flight will charge fits the
\* quota it was checked against.
C3_AtomicAdmission ==
  /\ Len(reqs) <= 1
  /\ Len(reqs) = 1 => analysisCount + UnitsInFlight(reqs[1]) <= MAX_ANALYSES

\* a request in flight that will use the quota up: a second request admitted
\* against the same counter value would overshoot
C3_Witness ==
  /\ Len(reqs) = 1
  /\ reqs[1].pc = "await_all"
  /\ analysisCount > 0
  /\ analysisCount + Len(reqs[1].texts) = MAX_ANALYSES

\* what a request leaves alone when it is turned away before any backend call
NothingStarted == UNCHANGED <<reqs, analysisCount, results, isLoading, admitted>>

NoLetters(text) == \A i \in 1..Len(text) : text[i] \notin Letters

HasStopOrQuote(text) == \E i \in 1..Len(text) : text[i] \in {".", "'", "\""}

Acceptable(text) == ~ NoLetters(text) /\ ~ HasStopOrQuote(text)

\* the texts of a batch that the request works on
Processed(texts) == 1..Min(Len(texts), BATCH_SLICE_END)

UsageLimitReported(remaining) ==
  /\ apiStatus'.status = "error"
  /\ apiStatus'.message = MsgUsageLimit
  /\ apiStatus'.arg = remaining

BatchesAllValid ==
  {texts \in QuotaBatchInputs : \A i \in 1..Len(texts) : Acceptable(texts[i])}

BatchesValidWhereProcessed ==
  {texts \in QuotaBatchInputs : \A i \in Processed(texts) : Acceptable(texts[i])}

\* C4 as stated, with the units of a batch being the number of its texts: a
\* batch of valid texts whose units do not fit the quota is turned away
\* reporting 15 - analysisCount.
C4_AsStated ==
  [][\A texts \in BatchesAllValid :
       (/\ analysisCount + Len(texts) > MAX_ANALYSES
        /\ ClickAnalyzeBatch(texts, QuotaLimit))
       => (/\ UsageLimitReported(MAX_ANALYSES - analysisCount)
           /\ NothingStarted)]_vars

\* C4 (SpecQuota), amended: a batch whose first min(n, 10) texts are valid and
\* do not fit what is left of the quota can only be turned away reporting
\* 15 - analysisCount, with nothing sent to the backend and the counter and
\* the history as they were.  A single text or a comparison is never turned
\* away with a quota message: at the limit no click reaches a handler.
C4_QuotaRejection ==
  /\ \A texts \in BatchesValidWhereProcessed :
       analysisCount + Min(Len(texts), BATCH_SLICE_END) > MAX_ANALYSES
         => ~ ENABLED (/\ ClickAnalyzeBatch(texts, QuotaLimit)
                       /\ ~ (/\ UsageLimitReported(MAX_ANALYSES - analysisCount)
                             /\ NothingStarted))
  /\ \A text \in QuotaSingleInputs :
       ~ ENABLED (/\ ClickAnalyzeSingle(text, QuotaLimit)
                  /\ apiStatus'.message = MsgUsageLimit)
  /\ \A pair \in QuotaComparePairs :
       ~ ENABLED (/\ ClickCompare(pair[1], pair[2], QuotaLimit)
                  /\ apiStatus'.message = MsgCompareLimit)
  /\ analysisCount >= MAX_ANALYSES
       => ~ ENABLED (QuotaAnalyzeSingle \/ QuotaAnalyzeBatch \/ QuotaCompare)

\* 14 used and a batch of 3 turned away with 1 remaining
C4_Witness ==
  /\ analysisCount = MAX_ANALYSES - 1
  /\ apiStatus = Status("error", "", MsgUsageLimit, 1)
  /\ reqs = <<>>
  /\ ~ isLoading

ValidationReported ==
  /\ apiStatus'.status = "error"
  /\ apiStatus'.message \in {MsgNoLetters, MsgPunctuation}

TurnedAwayUnstarted ==
  /\ ValidationReported
  /\ NothingStarted
  /\ comparisonModalState' = comparisonModalState

\* C5 as stated: a batch with a text without letters anywhere in what was
\* submitted is turned away with a validation error.
C5_AsStated ==
  [][\A texts \in QuotaBatchInputs :
       (/\ \E i \in 1..Len(texts) : NoLetters(texts[i])
        /\ ClickAnalyzeBatch(texts, InputLimit))
       => TurnedAwayUnstarted]_vars

\* what C5_LettersRule asks of every step
C5_LettersRule_Step ==
  /\ \A texts \in QuotaBatchInputs :
        (/\ \E i \in Processed(texts) : NoLetters(texts[i])
         /\ ClickAnalyzeBatch(texts, InputLimit))
        => TurnedAwayUnstarted
  /\ \A text \in QuotaSingleInputs :
        (NoLetters(text) /\ ClickAnalyzeSingle(text, InputLimit))
        => (/\ apiStatus' = Status("error", "", MsgNoLetters, 0)
            /\ TurnedAwayUnstarted)
  /\ \A pair \in QuotaComparePairs :
        (/\ NoLetters(pair[1]) \/ NoLetters(pair[2])
         /\ ClickCompare(pair[1], pair[2], InputLimit))
        => (/\ apiStatus'.prefix \in {"Text A: ", "Text B: "}
            /\ TurnedAwayUnstarted)

\* C5 (SpecInput), amended: a request with a text without a letter, the text
\* being the single text, a text of a comparison or one of the first 10 texts
\* of a batch, is turned away as a whole with a validation error; nothing is
\* sent to the backend and the counter, the history and the busy flag stay as
\* they were.
C5_LettersRule == [][C5_LettersRule_Step]_vars

\* a batch turned away for a line without letters after an earlier analysis
C5_Witness ==
  /\ apiStatus = Status("error", "", MsgNoLetters, 0)
  /\ analysisCount > 0
  /\ reqs = <<>>
  /\ ~ isLoading

\* C6 as stated: a batch with a full stop or a quote anywhere in what was
\* submitted is turned away with a validation error.
C6_AsStated ==
  [][\A texts \in QuotaBatchInputs :
       (/\ \E i \in 1..Len(texts) : HasStopOrQuote(texts[i])
        /\ ClickAnalyzeBatch(texts, InputLimit))
       => TurnedAwayUnstarted]_vars

\* what C6_PunctuationRule asks of every step
C6_PunctuationRule_Step ==
  /\ \A texts \in QuotaBatchInputs :
        (/\ \E i \in Processed(texts) : HasStopOrQuote(texts[i])
         /\ ClickAnalyzeBatch(texts, InputLimit))
        => TurnedAwayUnstarted
  /\ \A text \in QuotaSingleInputs :
        (HasStopOrQuote(text) /\ ClickAnalyzeSingle(text, InputLimit))
        => (/\ apiStatus' = Status("error", "",
                                   IF NoLetters(text) THEN MsgNoLetters
                                   ELSE MsgPunctuation, 0)
            /\ TurnedAwayUnstarted)
  /\ \A pair \in QuotaComparePairs :
        (/\ HasStopOrQuote(pair[1]) \/ HasStopOrQuote(pair[2])
         /\ ClickCompare(pair[1], pair[2], InputLimit))
        => (/\ apiStatus'.prefix \in {"Text A: ", "Text B: "}
            /\ TurnedAwayUnstarted)

\* C6 (SpecInput), amended: a request with a full stop, a single quote or a
\* double quote in the single text, in a text of a comparison or in one of the
\* first 10 texts of a batch is turned away as a whole with a validation
\* error, letters or not, and nothing is sent to the backend.
C6_PunctuationRule == [][C6_PunctuationRule_Step]_vars

\* a comparison turned away for a full stop in a text that has letters
C6_Witness ==
  /\ apiStatus = Status("error", "Text B: ", MsgPunctuation, 0)
  /\ analysisCount > 0
  /\ ~ comparisonModalState.isLoading
  /\ reqs = <<>>

\* what the local classifier says of the texts of Spec
LocalSentiment(text) ==
  IF text = TextGood THEN "positive"
  ELSE IF text = TextBad THEN "negative" ELSE "neutral"

\* what C7_Degradation asks of every step
C7_Degradation_Step ==
  /\ \A id \in 1..Len(reqs), i \in 1..MaxBatchLen, reply \in SentimentReplies :
        SentimentResponse(id, i, reply)
          => LET text == reqs[id].texts[i]
                 item == reqs'[id].out[i]
             IN /\ item.state = "fulfilled"
                /\ item.value.text = text
                /\ item.value.apiUsed = "gemini" => reply.kind = "json"
                /\ reply.kind # "json"
                     => /\ item.value.apiUsed = "fallback"
                        /\ item.value.sentiment = LocalSentiment(text)
                        /\ item.value.confidence = Num(750)
  /\ ~ apiKeySet
         => \A id \in 1..Len(reqs') :
              reqs'[id].kind = "analyze"
                => \A i \in 1..Len(reqs'[id].out) :
                     /\ reqs'[id].out[i].state = "fulfilled"
                     /\ reqs'[id].out[i].value.apiUsed = "fallback"
                     /\ reqs'[id].out[i].value.sentiment
                          = LocalSentiment(reqs'[id].texts[i])

\* C7 (SpecCore): whatever the backend does to a sentiment call, the call is
\* fulfilled; on a transport error, an unparsable payload or a null payload,
\* and without a credential, its result is the local classifier's, marked
\* 'fallback'; a result is marked 'gemini' only when the reply was parsed.
C7_Degradation == [][C7_Degradation_Step]_vars

\* a batch with one reply parsed and one call degraded
C7_Witness ==
  /\ apiKeySet
  /\ \E k \in 1..Len(results) : results[k].apiUsed = "fallback"
  /\ \E k \in 1..Len(results) : results[k].apiUsed = "gemini"

\* what C8_SingleTextSucceeds asks of every step
C8_SingleTextSucceeds_Step ==
  /\ \A id \in 1..Len(reqs) :
        (Len(reqs[id].texts) = 1 /\ AnalyzeResume(id))
          => /\ apiStatus' = Status("success", "", MsgComplete, 1)
             /\ Len(results') = Len(results) + 1
             /\ results'[1].text = reqs[id].texts[1]
             /\ results'[1].apiUsed \in {"gemini", "fallback"}
             /\ Tail(results') = results
             /\ analysisCount' = analysisCount + 1
  /\ \A id \in 1..Len(reqs), reply \in AnyReplies :
        MoodSettled(id, reply)
          => /\ apiStatus.status = "success"
             /\ UNCHANGED <<apiStatus, results, analysisCount>>
             /\ ~ isLoading'
  /\ apiStatus'.message # MsgOops

\* C8 (SpecCore): a request for one text leaves its await only with status
\* 'success', its result put before the history and the counter one higher,
\* and ends that way after the mood call, whatever the replies; the
\* "something went wrong" status is never set.
C8_SingleTextSucceeds == [][C8_SingleTextSucceeds_Step]_vars

\* a request for one text that ended in success although its call failed
C8_Witness ==
  /\ apiKeySet
  /\ apiStatus = Status("success", "", MsgComplete, 1)
  /\ reqs = <<>>
  /\ ~ isLoading
  /\ Len(results) > 0
  /\ results[1].apiUsed = "fallback"

\* what C9_BatchCap asks of every step
C9_BatchCap_Step ==
  /\ \A texts \in QuotaBatchInputs :
        (ClickAnalyzeBatch(texts, InputLimit) /\ Len(reqs') > Len(reqs))
          => LET r == reqs'[Len(reqs')]
             IN /\ r.texts = [i \in Processed(texts) |-> texts[i]]
                /\ Len(r.out) = Len(r.texts)
  /\ \A id \in 1..Len(reqs') :
        reqs'[id].kind = "analyze"
          => /\ Len(reqs'[id].texts) <= BATCH_SLICE_END
             /\ Len(reqs'[id].out) = Len(reqs'[id].texts)
  /\ \A id \in 1..Len(reqs) :
        AnalyzeResume(id)
          => LET n == Len(reqs[id].texts)
             IN /\ Len(results') = Len(results) + n
                /\ \A i \in 1..n : results'[i].text = reqs[id].texts[i]
                /\ analysisCount' = analysisCount + n

\* C9 (SpecInput): a batch that is started works on the first min(n, 10) of
\* its n texts, in order, with one sentiment call each; these and no others
\* are put in the history and charged.
C9_BatchCap == [][C9_BatchCap_Step]_vars

\* the first ten texts of a batch in the history, in order
C9_Witness ==
  /\ Len(results) = BATCH_SLICE_END
  /\ \A i \in 1..BATCH_SLICE_END : results[i].text = ItemText(i)
  /\ analysisCount = BATCH_SLICE_END
  /\ reqs = <<>>

ThrownComparisonReplies ==
  {reply \in AnyReplies : reply.kind \in {"nokey", "transport", "badjson"}}

\* C10 (SpecCore): when the comparison call throws (no credential, transport
\* error, unparsable payload), the comparison ends with the error message and
\* no result; the history and the counter stay as they were and no sentiment
\* call is made for either text.
C10_NoComparisonFallback ==
  [][\A id \in 1..Len(reqs), reply \in ThrownComparisonReplies :
       CompareSettled(id, reply)
         => /\ comparisonModalState' =
                 [isOpen |-> TRUE, result |-> NullComparison,
                  isLoading |-> FALSE, error |-> CompareErrorMsg]
            /\ UNCHANGED <<results, analysisCount, currentSentiment, apiStatus>>
            /\ reqs' = RemoveAt(reqs, id)
            /\ ~ isLoading']_vars

\* a comparison that failed at the backend after an analysis
C10_Witness ==
  /\ apiKeySet
  /\ comparisonModalState =
       [isOpen |-> TRUE, result |-> NullComparison,
        isLoading |-> FALSE, error |-> CompareErrorMsg]
  /\ Len(results) > 0
  /\ analysisCount = Len(results)
  /\ reqs = <<>>

ThrownReplies ==
  {reply \in AnyReplies : reply.kind \in {"nokey", "transport", "badjson"}}

\* C11 as stated: a deeper-analysis request, started or answered, leaves the
\* counter and the history as they were, and one that fails at the backend
\* ends with the error message and no advanced data.
C11_AsStated ==
  [][/\ \A k \in 1..Len(results) :
          DeeperClick(k, MaxDeeperOverlap) => UNCHANGED <<analysisCount, results>>
     /\ \A j \in 1..Len(deeper), reply \in AnyReplies :
          DeeperSettled(j, reply)
            => /\ UNCHANGED <<analysisCount, results>>
               /\ reply \in ThrownReplies
                    => /\ modalState'.error = MsgDeeperFailed
                       /\ modalState'.advancedData = NullAdvanced]_vars


\* the handler of request id is suspended at its getMoodEnhancers call
AwaitingMood(id) == reqs[id].kind = "analyze" /\ reqs[id].pc = "await_mood"

\* the one result of request id is in the history, counted and reported
Committed(id) ==
  /\ Len(results) >= 1
  /\ results[1] = reqs[id].out[1].value
  /\ analysisCount >= 1
  /\ apiStatus.status = "success"

\* C13 as stated: a mood-enhancement call is pending only for a request made
\* from the single-text input, never for a batch request, and only once the
\* primary result is committed.
C13_AsStated ==
  \A id \in 1..Len(reqs) :
    AwaitingMood(id) => (~ reqs[id].isArray /\ Committed(id))

\* C13 (amended): a mood-enhancement call is pending only for a request that
\* processed exactly one text, be it a single-text request or a batch of one
\* text, never for a request of two or more texts, and only once the primary
\* result is committed to the history and the counter.
C13_MoodAfterOneResult ==
  \A id \in 1..Len(reqs) :
    /\ AwaitingMood(id) => (Len(reqs[id].texts) = 1 /\ Committed(id))
    /\ (reqs[id].kind = "analyze" /\ Len(reqs[id].texts) >= 2)
         => reqs[id].pc # "await_mood"

\* a batch of one text waits for its mood call, and a batch of two texts has
\* been committed without one
C13_Witness ==
  /\ \E id \in 1..Len(reqs) : AwaitingMood(id) /\ reqs[id].isArray
  /\ Len(results) >= 3

\* what C14_MoodLeavesOutcome asks of every step
C14_MoodLeavesOutcome_Step ==
  \A id \in 1..Len(reqs), reply \in AnyReplies :
    MoodSettled(id, reply)
      => /\ Committed(id)
         /\ apiStatus' = apiStatus
         /\ results' = results
         /\ analysisCount' = analysisCount

\* C14: when the mood-enhancement call of a committed single-text analysis
\* returns, with a payload, with null or after a failure, the request status
\* stays 'success' and the history and analysisCount stay as they were.
C14_MoodLeavesOutcome == [][C14_MoodLeavesOutcome_Step]_vars

\* a session after one analysis whose mood call failed: the negative default
\* is shown under a 'success' status
C14_Witness ==
  /\ moodEnhancers = DefaultMood("negative")
  /\ apiStatus = Status("success", "", MsgComplete, 1)
  /\ analysisCount = 1
  /\ Len(results) = 1
  /\ reqs = <<>>

\* the playlist of the default that the service keeps for a label
DefaultPlaylist(label) ==
  CASE label = "negative" -> "Hopeful Instrumentals"
    [] label = "positive" -> "Feel-Good Indie Rock"
    [] OTHER -> "Focus & Ambient"

\* what C12_MoodNeverRaises asks of every step
C12_MoodNeverRaises_Step ==
  \A id \in 1..Len(reqs), reply \in AnyReplies :
    MoodSettled(id, reply)
      => LET first == reqs[id].out[1].value
             enhancers == getMoodEnhancers(first.sentiment, first.text, reply)
         IN /\ ~ enhancers.raised
            /\ moodEnhancers' = enhancers.value
            /\ reply \in ThrownReplies
                 => /\ enhancers.value.playlist = DefaultPlaylist(first.sentiment)
                    /\ first.sentiment \in {"negative", "positive", "neutral"}
                         => \A other \in {"negative", "positive", "neutral"} :
                              other # first.sentiment
                                => /\ enhancers.value.quote # DefaultMood(other).quote
                                   /\ enhancers.value.playlist
                                        # DefaultMood(other).playlist

\* C12: getMoodEnhancers never raises; when the backend call fails (no key,
\* transport error) or its text does not parse, it returns the fixed default
\* of the label, and the defaults of negative, positive and neutral differ
\* from one another.
C12_MoodNeverRaises == [][C12_MoodNeverRaises_Step]_vars

\* the neutral default shown for a text that the fallback found neutral
C12_Witness ==
  /\ Len(results) = 1
  /\ results[1].sentiment = "neutral"
  /\ results[1].apiUsed = "fallback"
  /\ moodEnhancers.playlist = "Focus & Ambient"
  /\ ~ isLoading

\* the words of a lexicon that occur somewhere in the lower-cased text
Hits(words, text) ==
  LET lower == toLowerCase(text)
  IN {w \in {words[i] : i \in 1..Len(words)} :
        \E k \in 1..Len(lower) :
          /\ k + Len(w) - 1 <= Len(lower)
          /\ SubSeq(lower, k, k + Len(w) - 1) = w}

\* the results of the fallback classifier that the session holds
FallbackResults ==
  {results[k] : k \in {i \in 1..Len(results) : results[i].apiUsed = "fallback"}}

\* C15: a fallback result is positive exactly when more different positive
\* than negative lexicon words occur in the lower-cased text, negative
\* exactly when more negative ones do, and neutral exactly when the two
\* counts are equal.
C15_FallbackDecision ==
  \A r \in FallbackResults :
    LET positiveCount == Cardinality(Hits(positiveWords, r.text))
        negativeCount == Cardinality(Hits(negativeWords, r.text))
    IN /\ (r.sentiment = "positive") = (positiveCount > negativeCount)
       /\ (r.sentiment = "negative") = (negativeCount > positiveCount)
       /\ (r.sentiment = "neutral") = (positiveCount = negativeCount)

\* "Good good bad sad", one positive word (twice, once in upper case) against
\* two negative words, found negative
C15_Witness ==
  \E r \in FallbackResults :
    /\ r.text = <<"G","o","o","d"," ","g","o","o","d"," ","b","a","d"," ",
                 "s","a","d">>
    /\ Cardinality(Hits(positiveWords, r.text)) = 1
    /\ Cardinality(Hits(negativeWords, r.text)) = 2
    /\ r.sentiment = "negative"

\* the count of the winning label of fallback result r, 0 for a tie
WinningCount(r) ==
  LET positiveCount == Cardinality(Hits(positiveWords, r.text))
      negativeCount == Cardinality(Hits(negativeWords, r.text))
  IN IF positiveCount > negativeCount THEN positiveCount
     ELSE IF negativeCount > positiveCount THEN negativeCount
     ELSE 0

\* min(0.95, 0.70 + 0.05 x count) in thousandths
ConfidenceMilli(count) == IF 700 + 50 * count > 950 THEN 950 ELSE 700 + 50 * count

\* C16 as stated: the confidence of a fallback result is the number
\* min(0.95, 0.70 + 0.05 x winningCount), 0.75 for a neutral result, and so
\* one of 0.75, 0.80, 0.85, 0.90 and 0.95.
C16_AsStated ==
  \A r \in FallbackResults :
    /\ r.confidence = IF r.sentiment = "neutral" THEN Num(750)
                      ELSE Num(ConfidenceMilli(WinningCount(r)))
    /\ r.confidence \in {Num(750), Num(800), Num(850), Num(900), Num(950)}

\* C16 (amended): the confidence of a fallback result is 0.75 when the result
\* is neutral; otherwise it is the double nearest to
\* min(0.95, 0.70 + 0.05 x winningCount) for 1, 3, 5 or more hits and the
\* double just below the one nearest to 0.80 or 0.90 for 2 or 4 hits, so it
\* is never further than 2^-53 from one of 0.75, 0.80, 0.85, 0.90, 0.95; the
\* text "I love this!" gives positive with exactly 0.75.
C16_FallbackConfidence ==
  \A r \in FallbackResults :
    LET count == WinningCount(r)
        nearest == Num(ConfidenceMilli(count))
    IN /\ r.sentiment = "neutral" => r.confidence = Num(750)
       /\ (r.sentiment # "neutral" /\ count \notin {2, 4}) => r.confidence = nearest
       /\ (r.sentiment # "neutral" /\ count \in {2, 4})
            => r.confidence = [nearest EXCEPT !.err = @ - 1000 * Pow2(7)]
       /\ r.text = TextLoveThis
            => (r.sentiment = "positive" /\ r.confidence = Num(750))

\* a result with two hits, whose confidence 0.7 + 2 * 0.05 is
\* 0.7999999999999999, one unit in the last place below 0.8
C16_Witness ==
  \E r \in FallbackResults :
    /\ WinningCount(r) = 2
    /\ r.confidence = [milli |-> 800, err |-> -76800]
    /\ Num(800) = [milli |-> 800, err |-> 51200]

\* the labels other than the label of result r
OtherLabels(r) == {"positive", "negative", "neutral"} \ {r.sentiment}

\* C17: in a fallback result the score of the result's label is the
\* confidence, each of the two other scores is half of what the confidence
\* leaves of 1, and the three scores add up to 1: as real numbers, and when
\* added as doubles in the order positive, negative, neutral.
C17_FallbackScores ==
  \A r \in FallbackResults :
    /\ r.scores[r.sentiment] = r.confidence
    /\ \A label \in OtherLabels(r) :
         /\ 2 * r.scores[label].milli = 1000 - r.confidence.milli
         /\ 2 * r.scores[label].err = 0 - r.confidence.err
    /\ r.scores.positive.milli + r.scores.negative.milli
         + r.scores.neutral.milli = 1000
    /\ r.scores.positive.err + r.scores.negative.err + r.scores.neutral.err = 0
    /\ NumPlus(NumPlus(r.scores.positive, r.scores.negative), r.scores.neutral)
         = Num(1000)

\* a negative result with three hits: 0.85 for negative, 0.075 (to the last
\* place 0.07500000000000001) for positive and for neutral
C17_Witness ==
  \E r \in FallbackResults :
    /\ r.sentiment = "negative"
    /\ WinningCount(r) = 3
    /\ r.scores.negative = [milli |-> 850, err |-> -25600]
    /\ r.scores.positive = [milli |-> 75, err |-> 12800]
    /\ r.scores.neutral = r.scores.positive

\* the tokens of a text that may be keywords, in the order of the text: the
\* runs of letters, digits and underscores of the lower-cased text that are
\* longer than two characters and no stop words
Candidates(text) ==
  SelectSeq(SplitWords(toLowerCase(text), 1, <<>>),
            LAMBDA w : Len(w) > 2 /\ w \notin stopWords)

Occurrences(w, tokens) == Cardinality({i \in 1..Len(tokens) : tokens[i] = w})

FirstOccurrence(w, tokens) ==
  CHOOSE i \in 1..Len(tokens) : tokens[i] = w /\ \A j \in 1..(i - 1) : tokens[j] # w

\* w comes before v in the order of the claim: more occurrences first, the
\* earlier first occurrence first among equal counts
RanksBefore(w, v, tokens) ==
  \/ Occurrences(w, tokens) > Occurrences(v, tokens)
  \/ /\ Occurrences(w, tokens) = Occurrences(v, tokens)
     /\ FirstOccurrence(w, tokens) < FirstOccurrence(v, tokens)

\* C18 as stated: the keywords of a fallback result are at most 5 different
\* tokens of the text, none of length 2 or less and none a stop word; they
\* are the tokens of the highest occurrence counts, in descending order of
\* count, tokens of equal count in the order of their first occurrence.
C18_AsStated ==
  \A r \in FallbackResults :
    LET tokens == Candidates(r.text)
        all == {tokens[i] : i \in 1..Len(tokens)}
        kw == r.keywords
        chosen == {kw[i] : i \in 1..Len(kw)}
    IN /\ Len(kw) <= 5
       /\ Cardinality(chosen) = Len(kw)
       /\ chosen \subseteq all
       /\ Len(kw) = (IF Cardinality(all) < 5 THEN Cardinality(all) ELSE 5)
       /\ \A i \in 1..Len(kw) : Len(kw[i]) > 2 /\ kw[i] \notin stopWords
       /\ \A i \in 1..(Len(kw) - 1) : RanksBefore(kw[i], kw[i + 1], tokens)
       /\ \A w \in chosen, v \in all \ chosen : RanksBefore(w, v, tokens)

\* the results that the session holds as results of the backend
BackendResults ==
  {results[k] : k \in {i \in 1..Len(results) : results[i].apiUsed = "gemini"}}

\* C19 as stated: a payload that parses and breaks the output contract is
\* answered with the fallback result, so every result of provenance 'gemini'
\* carries one of the three labels and every required field.
C19_AsStated ==
  \A r \in BackendResults :
    /\ r.sentiment \in {"positive", "negative", "neutral"}
    /\ r.undefined = {}

\* 0 <= x <= 1
InUnitInterval(x) == ~ NumLess(x, Num(0)) /\ ~ NumLess(Num(1000), x)

\* C20 as stated: the confidence and each of the three scores of every
\* result, of the backend or of the fallback, lie in [0,1] whatever numbers
\* the payload holds.
C20_AsStated ==
  \A k \in 1..Len(results) :
    /\ "confidence" \notin results[k].undefined
         => InUnitInterval(results[k].confidence)
    /\ "scores" \notin results[k].undefined
         => \A label \in {"positive", "negative", "neutral"} :
              InUnitInterval(results[k].scores[label])

\* the calls of request r that the backend has not answered
PendingCalls(r) == {i \in 1..Len(r.out) : r.out[i].state = "pending"}

\* what C21_NoRetry asks of every step
C21_NoRetry_Step ==
  \* one call for each text of a request, and none left when the mood call
  \* or the comparison is awaited
  /\ \A id \in 1..Len(reqs) :
       /\ reqs[id].kind = "analyze" => Len(reqs[id].out) = Len(reqs[id].texts)
       /\ reqs[id].pc # "await_all" => PendingCalls(reqs[id]) = {}
       /\ ~ apiKeySet => PendingCalls(reqs[id]) = {}
  \* an answer to a sentiment call, a failure too, settles that call and
  \* issues no other
  /\ \A id \in 1..Len(reqs), i \in 1..MaxBatchLen, reply \in SentimentReplies :
       SentimentResponse(id, i, reply)
         => /\ reqs'[id].out[i].state = "fulfilled"
            /\ PendingCalls(reqs'[id]) = PendingCalls(reqs[id]) \ {i}
            /\ reply.kind # "json" => reqs'[id].out[i].value.apiUsed = "fallback"
  \* a call that was answered stays answered, with the answer it got
  /\ \A id \in 1..Len(reqs) :
       Len(reqs') = Len(reqs)
         => /\ reqs'[id].texts = reqs[id].texts
            /\ \A i \in 1..Len(reqs[id].out) :
                 reqs[id].out[i].state # "pending"
                   => reqs'[id].out[i] = reqs[id].out[i]
  \* the answer to a mood call or to a comparison, a failure too, ends the
  \* request
  /\ \A id \in 1..Len(reqs) :
       (reqs[id].pc \in {"await_mood", "await_compare"} /\ reqs' # reqs)
         => /\ reqs' = RemoveAt(reqs, id)
            /\ ~ isLoading'
  /\ \A id \in 1..Len(reqs), reply \in ThrownComparisonReplies :
       CompareSettled(id, reply) => comparisonModalState'.error = CompareErrorMsg
  \* the answer to a deeper-analysis call, a failure too, ends that call; a
  \* new one is issued only by a click on a result
  /\ \A j \in 1..Len(deeper), reply \in AnyReplies :
       DeeperSettled(j, reply)
         => /\ deeper' = RemoveAt(deeper, j)
            /\ ~ modalState'.isLoading
            /\ reply \in ThrownReplies => modalState'.error = MsgDeeperFailed
  /\ Len(deeper') > Len(deeper)
       => \E k \in 1..Len(results) :
            /\ deeper' = Append(deeper, [text |-> results[k].text])
            /\ modalState'.selectedResult = results[k]
            /\ modalState'.isLoading

\* C21 (Spec): no call is made twice.  A request has one sentiment call for
\* each of its texts; the answer to a call, a failure too, settles that call
\* for good (the fallback result for a sentiment call, the error message for
\* a comparison or a deeper analysis, the default for a mood call) and no
\* step issues a call for a request whose call has been answered.
C21_NoRetry == [][C21_NoRetry_Step]_vars

\* a sentiment call and a comparison that failed at the backend, each ended
\* by the one answer
C21_Witness ==
  /\ apiKeySet
  /\ Len(results) = 1
  /\ results[1].apiUsed = "fallback"
  /\ comparisonModalState.error = CompareErrorMsg
  /\ reqs = <<>>
  /\ deeper = <<>>

\* a request turned away with a quota message
QuotaRejected ==
  /\ apiStatus'.status = "error"
  /\ apiStatus'.message \in {MsgUsageLimit, MsgCompareLimit}
  /\ NothingStarted

\* the batches with an invalid text among those worked on
BatchesInvalidWhereProcessed == QuotaBatchInputs \ BatchesValidWhereProcessed

PairsWithInvalid ==
  {pair \in QuotaComparePairs : ~ Acceptable(pair[1]) \/ ~ Acceptable(pair[2])}

\* C22 as stated: a request with an invalid text among its texts is turned
\* away with the validation message, whatever the counter, and never with a
\* quota message.
C22_AsStated ==
  [][/\ \A texts \in QuotaBatchInputs \ BatchesAllValid :
          ClickAnalyzeBatch(texts, InputLimit)
            => (ValidationReported /\ ~ QuotaRejected)
     /\ \A text \in InvalidTexts :
          ClickAnalyzeSingle(text, InputLimit)
            => (ValidationReported /\ ~ QuotaRejected)
     /\ \A pair \in PairsWithInvalid :
          ClickCompare(pair[1], pair[2], InputLimit)
            => (ValidationReported /\ ~ QuotaRejected)]_vars

\* what C22_ValidationFirst asks of every step
C22_ValidationFirst_Step ==
  /\ \A text \in InvalidTexts :
       ClickAnalyzeSingle(text, InputLimit) => TurnedAwayUnstarted
  /\ \A texts \in BatchesInvalidWhereProcessed :
       ClickAnalyzeBatch(texts, InputLimit) => TurnedAwayUnstarted
  /\ \A pair \in PairsWithInvalid :
       ClickCompare(pair[1], pair[2], InputLimit) => TurnedAwayUnstarted
  /\ (apiStatus' # apiStatus /\ QuotaRejected)
       => /\ apiStatus'.message = MsgUsageLimit
          /\ \E texts \in BatchesValidWhereProcessed :
               /\ ClickAnalyzeBatch(texts, InputLimit)
               /\ analysisCount + Min(Len(texts), BATCH_SLICE_END) > MAX_ANALYSES

\* C22 (SpecInput), amended: a request that reaches its handler (a click with
\* no request in flight and the counter below the limit) with an invalid text
\* among those it works on (the single text, a compared text, one of the
\* first 10 of a batch) is turned away with the validation message and
\* nothing else, however little of the quota is left; a quota message is only
\* ever issued for a batch whose first 10 texts are all valid and do not fit
\* what is left.
C22_ValidationFirst == [][C22_ValidationFirst_Step]_vars

\* a request with an invalid text turned away for the text when a batch of
\* its size would not have fitted the quota either
C22_Witness ==
  /\ analysisCount = BATCH_SLICE_END
  /\ apiStatus.status = "error"
  /\ apiStatus.message \in {MsgNoLetters, MsgPunctuation}
  /\ ~ isLoading
  /\ reqs = <<>>

\* the position in a batch of the text that validation stops at
FailingIndex(texts) == FirstInvalid(TextsOf(texts, TRUE))

\* the rule that the text validation stops at breaks
FailedRule(text) == IF NoLetters(text) THEN "letters" ELSE "punctuation"

\* the text of a comparison that validation stops at
FailingSide(pair) == IF ~ Acceptable(pair[1]) THEN "A" ELSE "B"

\* C23 as stated: what a validation rejection reports tells the rule that
\* failed and the text that failed apart: two requests turned away with the
\* same report failed the same rule, and in the same text of the comparison
\* or at the same index of the batch.
C23_AsStated ==
  [][/\ \A text \in InvalidTexts, other \in InvalidTexts :
          (/\ ClickAnalyzeSingle(text, InputLimit)
           /\ ClickAnalyzeSingle(other, InputLimit))
            => FailedRule(text) = FailedRule(other)
     /\ \A pair \in PairsWithInvalid, other \in PairsWithInvalid :
          (/\ ClickCompare(pair[1], pair[2], InputLimit)
           /\ ClickCompare(other[1], other[2], InputLimit))
            => /\ FailingSide(pair) = FailingSide(other)
               /\ FailedRule(IF FailingSide(pair) = "A" THEN pair[1] ELSE pair[2])
                    = FailedRule(IF FailingSide(other) = "A" THEN other[1]
                                 ELSE other[2])
     /\ \A texts \in BatchesInvalidWhereProcessed,
           other \in BatchesInvalidWhereProcessed :
          (/\ ClickAnalyzeBatch(texts, InputLimit)
           /\ ClickAnalyzeBatch(other, InputLimit))
            => /\ FailedRule(texts[FailingIndex(texts)])
                    = FailedRule(other[FailingIndex(other)])
               /\ FailingIndex(texts) = FailingIndex(other)]_vars

\* what C24_BatchOrdering asks of every step
C24_BatchOrdering_Step ==
  \* the calls of a request are issued together, in the step that admits it
  /\ Len(reqs') > Len(reqs)
       => LET r == reqs'[Len(reqs')]
          IN (apiKeySet /\ r.kind = "analyze")
               => /\ Len(r.out) = Len(r.texts)
                  /\ PendingCalls(r) = 1..Len(r.texts)
  \* the request goes on only when each of its calls has been answered
  /\ \A id \in 1..Len(reqs) :
       (reqs[id].pc = "await_all" /\ ~ isLoading')
         => PendingCalls(reqs[id]) = {}
  \* the history changes only by the block of one request put at its head,
  \* the results in the order of the texts
  /\ results' # results
       => \E id \in 1..Len(reqs) :
            /\ reqs[id].kind = "analyze"
            /\ reqs[id].pc = "await_all"
            /\ Len(results') = Len(results) + Len(reqs[id].texts)
            /\ SubSeq(results', Len(reqs[id].texts) + 1, Len(results')) = results
            /\ \A i \in 1..Len(reqs[id].texts) :
                 /\ results'[i] = reqs[id].out[i].value
                 /\ results'[i].text = reqs[id].texts[i]
            /\ analysisCount' = analysisCount + Len(reqs[id].texts)

\* C24 (SpecCore): the calls of a batch are all in flight from the step that
\* admits it and are answered in any order; the history changes only in the
\* step that commits a request, which puts the results of that request, as
\* many as its texts and in the order of its texts, in one block before all
\* the results that were there.
C24_BatchOrdering == [][C24_BatchOrdering_Step]_vars

\* the block of the batch "bad", "Good", one answered by the backend and one
\* by the fallback, before the result of an earlier request
C24_Witness ==
  /\ apiKeySet
  /\ apiStatus = Status("success", "", MsgComplete, 2)
  /\ Len(results) = 3
  /\ results[1].text = TextBad
  /\ results[1].apiUsed = "gemini"
  /\ results[2].text = TextGood
  /\ results[2].apiUsed = "fallback"
  /\ reqs = <<>>

\* C26 as stated: the advanced data that the modal holds was computed from
\* the text of the result that is selected, and the modal holds none while no
\* result is selected, whatever deeper-analysis calls overlap.
C26_AsStated ==
  modalState.advancedData # NullAdvanced
    => /\ modalState.selectedResult # NoResult
       /\ modalState.advancedData.forText = modalState.selectedResult.text

\* C27 as stated, for the step that ends a request: the busy flag and the
\* loading flag of the modal are cleared, the status is not left 'loading',
\* and the request ends with a result or with an error message.
C27_AsStated ==
  [][/\ \A id \in 1..Len(reqs) :
          (reqs[id].kind = "analyze" /\ Len(reqs') < Len(reqs))
            => /\ ~ isLoading'
               /\ \/ apiStatus'.status = "error" /\ apiStatus'.message = MsgOops
                  \/ /\ apiStatus'.status = "success"
                     /\ Len(results') >= Len(reqs[id].texts)
     /\ \A id \in 1..Len(reqs), reply \in AnyReplies :
          CompareSettled(id, reply)
            => /\ ~ isLoading'
               /\ ~ comparisonModalState'.isLoading
               /\ \/ comparisonModalState'.result # NullComparison
                  \/ comparisonModalState'.error # ""
     /\ \A j \in 1..Len(deeper), reply \in AnyReplies :
          DeeperSettled(j, reply)
            => /\ ~ modalState'.isLoading
               /\ modalState'.isOpen
                    => \/ modalState'.advancedData # NullAdvanced
                       \/ modalState'.error # ""]_vars


\* the click started a request that works on k texts
StartedWith(k) ==
  /\ Len(reqs') = Len(reqs) + 1
  /\ Len(reqs'[Len(reqs')].texts) = k
  /\ admitted'.units = admitted.units + k
  /\ apiStatus'.status = "loading"

\* C28 as stated: a batch of n > 10 valid texts is admitted or turned away
\* according to n: it is started when analysisCount + n fits the limit of 15
\* and turned away with the usage-limit message otherwise.
C28_AsStated ==
  [][\A texts \in BatchesAllValid :
       (/\ Len(texts) > BATCH_SLICE_END
        /\ ClickAnalyzeBatch(texts, QuotaLimit))
       => IF analysisCount + Len(texts) <= MAX_ANALYSES
          THEN Len(reqs') = Len(reqs) + 1
          ELSE QuotaRejected]_vars

\* C28 (SpecQuota), amended: the units of a batch of n texts are min(n, 10),
\* the number of texts the request works on.  A batch whose first min(n, 10)
\* texts are valid is started, with min(n, 10) texts, exactly when
\* analysisCount + min(n, 10) fits the limit of 15, and is turned away with
\* the usage-limit message otherwise; n itself plays no part beyond 10.
C28_BatchUnits ==
  [][\A texts \in BatchesValidWhereProcessed :
       ClickAnalyzeBatch(texts, QuotaLimit)
         => LET units == Min(Len(texts), BATCH_SLICE_END)
            IN IF analysisCount + units <= MAX_ANALYSES
               THEN StartedWith(units)
               ELSE /\ QuotaRejected
                    /\ apiStatus'.message = MsgUsageLimit]_vars

\* 5 used and a batch of more than 10 lines started: its 10 texts fill the
\* quota exactly
C28_Witness ==
  /\ analysisCount = MAX_ANALYSES - BATCH_SLICE_END
  /\ \E id \in 1..Len(reqs) :
       /\ reqs[id].kind = "analyze"
       /\ reqs[id].isArray
       /\ Len(reqs[id].texts) = BATCH_SLICE_END
       /\ reqs[id].texts[BATCH_SLICE_END] = ItemText(BATCH_SLICE_END)
  /\ apiStatus = Status("loading", "", MsgAnalyzing, BATCH_SLICE_END)


C30_BusyUntilMoodSettled_Step ==
  \A id \in 1..Len(reqs) :
    AwaitingMood(id)
      => /\ isLoading
         /\ apiStatus.status = "success"
         /\ Len(results) >= 1 /\ results[1] = reqs[id].out[1].value
         \* the flag is cleared by the step that ends the mood call only
         /\ ~ isLoading' => \E reply \in AnyReplies : MoodSettled(id, reply)
         \* no request is started: none is added and none is admitted
         /\ Len(reqs') <= Len(reqs)
         /\ admitted' = admitted
         /\ \A id2 \in 1..Len(reqs') : reqs'[id2].texts = reqs[id].texts

\* C30: from the commit of the result of a one-text analysis (status
\* 'success') to the end of its mood-enhancement call the busy flag
\* isLoading stays true, and no analyze or compare request is started from
\* the input section in between.
C30_BusyUntilMoodSettled == [][C30_BusyUntilMoodSettled_Step]_vars

\* a second analysis committed and waiting for its mood call, the session
\* still busy
C30_Witness ==
  /\ apiKeySet
  /\ isLoading
  /\ Len(results) = 2
  /\ Len(reqs) = 1
  /\ AwaitingMood(1)
  /\ apiStatus = Status("success", "", MsgComplete, 1)
====
